---- MODULE Spec2Model ----
(***************************************************************************)
(* rdwr: sequential binary readers and writers.                            *)
(*                                                                         *)
(* Spec drives one reader (an ArrayBufferDataReader, or a BlobDataReader    *)
(* over a stream with some chunking) through every sequence of             *)
(* sequentially issued calls.  SpecChunks drives four BlobDataReaders over *)
(* the same bytes, chunked differently, through the same readBytes calls.  *)
(* SpecWriter drives one ArrayBufferDataWriter through raw writes and      *)
(* closes, SpecGrowth feeds it consecutive pieces of one byte sequence,    *)
(* SpecReadAll drains readers with readAll, and SpecCodec writes typed     *)
(* values and reads them back from the written bytes.  In these every      *)
(* handler is one atomic action (sequential use, spec section 5).          *)
(* SpecCursor joins Spec and SpecWriter, SpecConvert applies the buffer    *)
(* conversions, SpecBackends gives two writers the same writes, SpecRace   *)
(* suspends the first read of a BlobDataReader at its awaits, and          *)
(* SpecDrain runs readBytes and readAll one raw read at a time.            *)
(***************************************************************************)
EXTENDS Integers, Sequences, FiniteSets, TLC

VARIABLES
    src,            \* the logical byte sequence behind every reader
    rd,             \* the reader object
    littleEndian,   \* AbstractDataReader._littleEndian
    observe,        \* what is recorded about the calls: "calls" (last) or "stream" (delivered)
    last,           \* the last call: operation, arguments, reader before, outcome
    delivered,      \* bytes handed out by the successful calls so far
    rds,            \* SpecChunks: one BlobDataReader per chunking
    outs,           \* SpecChunks: the last readBytes call and its outcome per chunking
    wr,             \* the writer object (an ArrayBufferDataWriter)
    sink,           \* what the writer's close action received, one entry per invocation
    wlast,          \* the last call on the writer: operation, arguments, writer before
    wrote,          \* SpecCodec: the typed writes issued, in order
    got,            \* SpecCodec: the outcomes of the typed reads issued, in order
    task,           \* the call suspended at an await, with its local variables
    file,           \* the FileStreamDataWriter: what its handle received, per call
    target          \* SpecConvert: the object handed to DataTarget.asBytes and the result

vars == <<src, rd, littleEndian, observe, last, delivered, rds, outs,
          wr, sink, wlast, wrote, got, task, file, target>>

----------------------------------------------------------------------------
(* Bounds *)

MaxSrcLen == 8      \* longest source byte sequence
MaxReq    == 3      \* largest byteLength / readBytes length requested
MaxDest   == 5      \* largest destination buffer handed to read
BigChunk  == 3000   \* SpecReadAll: chunk size of the stream behind a long source

----------------------------------------------------------------------------
(* Values *)

Undef == -1         \* an omitted optional argument (undefined)
EOF   == -1         \* read's end-of-file result

NoErr     == "none"
ErrClosed == "Cannot use reader after closing"
ErrEOD    == "Unexpected end of data"
ErrRange  == "RangeError"
ErrCancel == "cancel failed"

UNINITIALIZED == "UNINITIALIZED"
INITIALIZED   == "INITIALIZED"
CLOSED        == "CLOSED"

Min(a, b) == IF a < b THEN a ELSE b

\* new Uint8Array(n): n zero bytes
Zeros(n) == [i \in 1..n |-> 0]

\* the source bytes: pairwise distinct and nonzero, so that a skipped,
\* duplicated or reordered byte shows
SrcBytes(n) == [i \in 1..n |-> (i * 37) % 256]

\* the chunkings of the pull source: fixed chunk sizes, or one single chunk
Chunkings == {"c1", "c2", "c3", "c7", "whole"}

ChunkSize(b) ==
    CASE b = "c1" -> 1
      [] b = "c2" -> 2
      [] b = "c3" -> 3
      [] b = "c7" -> 7
      [] b = "big" -> BigChunk
      [] OTHER    -> Len(src)

\* x || d
OrDefault(x, d) == IF x = Undef \/ x = 0 THEN d ELSE x

\* TypedArray.prototype.set(sub, at) on u8, when it fits
SetBytes(u8, sub, at) ==
    [i \in 1..Len(u8) |-> IF i > at /\ i <= at + Len(sub) THEN sub[i - at] ELSE u8[i]]

\* TypedArray.prototype.set throws RangeError when the source does not fit
SetFits(u8, sub, at) == Len(sub) + at <= Len(u8)

----------------------------------------------------------------------------
(* BlobDataReader *)

NullChunk == [present |-> FALSE, data |-> <<>>, head |-> 0]

\* constructor
NewBlobReader(b) ==
    [kind     |-> "blob",
     state    |-> UNINITIALIZED,
     chunk    |-> NullChunk,
     acquired |-> 0,          \* number of stream.getReader() calls
     cs       |-> b,          \* the chunking of this reader's stream
     pos      |-> 0,          \* stream: bytes handed out by reader.read()
     ended    |-> FALSE,      \* stream: reader.read() has signalled done
     cancels  |-> 0]          \* number of reader.cancel() calls

\* the pull source: reader.read()
StreamRead(r) ==
    IF r.pos >= Len(src)
    THEN [r |-> [r EXCEPT !.ended = TRUE], done |-> TRUE, value |-> <<>>]
    ELSE LET n == Min(ChunkSize(r.cs), Len(src) - r.pos)
         IN [r     |-> [r EXCEPT !.pos = @ + n],
             done  |-> FALSE,
             value |-> SubSeq(src, r.pos + 1, r.pos + n)]

\* GetReader without its CLOSED case: a closed reader acquires the stream again
GetReaderReopens(r) ==
    IF r.state = INITIALIZED
    THEN [r |-> r, err |-> NoErr]
    ELSE [r |-> [r EXCEPT !.state = INITIALIZED, !.acquired = @ + 1], err |-> NoErr]

GetReader(r) ==
    CASE r.state = UNINITIALIZED ->
            [r |-> [r EXCEPT !.state = INITIALIZED, !.acquired = @ + 1], err |-> NoErr]
      [] r.state = INITIALIZED ->
            [r |-> r, err |-> NoErr]
      [] OTHER ->
            [r |-> r, err |-> ErrClosed]

NextChunk(r) ==
    IF r.chunk.present
    THEN [r |-> r, chunk |-> r.chunk, err |-> NoErr]
    ELSE LET g == GetReader(r)
         IN IF g.err # NoErr
            THEN [r |-> g.r, chunk |-> NullChunk, err |-> g.err]
            ELSE LET s == StreamRead(g.r)
                 IN IF s.done
                    THEN [r |-> s.r, chunk |-> NullChunk, err |-> NoErr]
                    ELSE LET c == [present |-> TRUE, data |-> s.value, head |-> 0]
                         IN [r |-> [s.r EXCEPT !.chunk = c], chunk |-> c, err |-> NoErr]

\* the outcome of a raw read: the reader afterwards, the returned count,
\* the destination afterwards, the error raised
Return(r, u8, n) == [r |-> r, ret |-> n, u8 |-> u8, err |-> NoErr]
Throw(r, u8, e)  == [r |-> r, ret |-> 0, u8 |-> u8, err |-> e]

\* the while loop of read; chunk is the local variable, which is the same
\* object as this._chunk whenever it is kept
RECURSIVE BlobReadLoop(_, _, _, _, _, _)
BlobReadLoop(r, chunk, u8, byteOffset, byteLength, read) ==
    IF ~(read < byteLength)
    THEN Return(r, u8, read)
    ELSE LET rem   == Len(chunk.data) - chunk.head
             drain == rem < byteLength
             count == IF drain THEN rem ELSE byteLength
             nx    == IF drain
                      THEN NextChunk([r EXCEPT !.chunk = NullChunk])
                      ELSE [r |-> r, chunk |-> chunk, err |-> NoErr]
         IN IF nx.err # NoErr
            THEN Throw(nx.r, u8, nx.err)
            ELSE LET sub == SubSeq(chunk.data, chunk.head + 1, chunk.head + count)
                     r2  == IF drain THEN nx.r
                                     ELSE [nx.r EXCEPT !.chunk.head = @ + count]
                     at  == byteOffset + read
                 IN IF ~SetFits(u8, sub, at)
                    THEN Throw(r2, u8, ErrRange)
                    ELSE IF ~nx.chunk.present
                         THEN Return(r2, SetBytes(u8, sub, at), read + count)
                         ELSE \* the next iteration, on the values of this one
                              CHOOSE x \in
                                 {BlobReadLoop(r3, r3.chunk, u, byteOffset, byteLength, n) :
                                    r3 \in {r2}, u \in {SetBytes(u8, sub, at)},
                                    n \in {read + count}} : TRUE

BlobRead(r, buf, byteOffset, byteLength) ==
    IF byteLength = 0
    THEN Return(r, buf, 0)
    ELSE LET off == OrDefault(byteOffset, 0)
             len == OrDefault(byteLength, Len(buf))
             nx  == NextChunk(r)
         IN IF nx.err # NoErr THEN Throw(nx.r, buf, nx.err)
            ELSE IF ~nx.chunk.present THEN Return(nx.r, buf, EOF)
            ELSE \* the loop, on the values of the first chunk and the arguments
                 CHOOSE x \in
                    {BlobReadLoop(r1, c, u, o, l, 0) :
                       r1 \in {nx.r}, c \in {nx.chunk}, u \in {buf},
                       o \in {off}, l \in {len}} : TRUE

\* close() that cancels whenever a stream reader was ever acquired, instead of
\* only when the state is INITIALIZED
BlobCloseCancelsAgain(r, readerCancelFails, streamCancelFails) ==
    LET r1 == [r EXCEPT !.state = CLOSED]
    IN IF r.acquired > 0
       THEN LET r2 == [r1 EXCEPT !.cancels = @ + 1]
            IN IF readerCancelFails /\ ~r.ended
               THEN [r |-> r2, err |-> ErrCancel]
               ELSE [r |-> [r2 EXCEPT !.chunk = NullChunk], err |-> NoErr]
       ELSE [r |-> [r1 EXCEPT !.chunk = NullChunk], err |-> NoErr]

\* close(); the two arguments are the outcomes of reader.cancel() and
\* stream.cancel().  Cancelling a stream that has already signalled done
\* resolves (the stream is closed), so reader.cancel() can fail only before.
BlobClose(r, readerCancelFails, streamCancelFails) ==
    LET r1 == [r EXCEPT !.state = CLOSED]
    IN IF r.state = INITIALIZED
       THEN LET r2 == [r1 EXCEPT !.cancels = @ + 1]
            IN IF readerCancelFails /\ ~r.ended
               THEN [r |-> r2, err |-> ErrCancel]
               ELSE [r |-> [r2 EXCEPT !.chunk = NullChunk], err |-> NoErr]
       ELSE [r |-> [r1 EXCEPT !.chunk = NullChunk], err |-> NoErr]

----------------------------------------------------------------------------
(* ArrayBufferDataReader *)

NewArrayBufferReader == [kind |-> "ab", head |-> 0]

\* read that advances the head by the requested length instead of the
\* length clamped to what remains
ArrayBufferReadUnclamped(r, buf, byteOffset, byteLength) ==
    LET rem == Len(src) - r.head
    IN IF rem = 0 THEN Return(r, buf, EOF)
       ELSE IF byteLength = 0 THEN Return(r, buf, 0)
       ELSE LET off  == OrDefault(byteOffset, 0)
                len  == OrDefault(byteLength, Len(buf))
                view == SubSeq(src, r.head + 1, r.head + Min(rem, len))
            IN IF ~SetFits(buf, view, off)
               THEN Throw(r, buf, ErrRange)
               ELSE Return([r EXCEPT !.head = @ + len], SetBytes(buf, view, off), len)

ArrayBufferRead(r, buf, byteOffset, byteLength) ==
    LET rem == Len(src) - r.head
    IN IF rem = 0 THEN Return(r, buf, EOF)
       ELSE IF byteLength = 0 THEN Return(r, buf, 0)
       ELSE LET off  == OrDefault(byteOffset, 0)
                len  == Min(rem, OrDefault(byteLength, Len(buf)))
                view == SubSeq(src, r.head + 1, r.head + len)
            IN IF ~SetFits(buf, view, off)
               THEN Throw(r, buf, ErrRange)
               ELSE Return([r EXCEPT !.head = @ + len], SetBytes(buf, view, off), len)

ArrayBufferClose(r) == [r |-> r, err |-> NoErr]

----------------------------------------------------------------------------
(* AbstractDataReader *)

\* the abstract read, dispatched on the backend
RawRead(r, buf, byteOffset, byteLength) ==
    IF r.kind = "ab" THEN ArrayBufferRead(r, buf, byteOffset, byteLength)
                     ELSE BlobRead(r, buf, byteOffset, byteLength)

RECURSIVE ReadBytesLoop(_, _, _, _)

\* the loop body that stops at EOF and returns what it has instead of failing
ReadBytesStepPartial(x, head, length) ==
    IF x.err # NoErr THEN [r |-> x.r, value |-> <<>>, err |-> x.err]
    ELSE IF x.ret = EOF THEN [r |-> x.r, value |-> x.u8, err |-> NoErr]
    ELSE ReadBytesLoop(x.r, x.u8, head + x.ret, length)

\* the body of readBytes' loop, x being what this.read(u8, head, length - head) did
ReadBytesStep(x, head, length) ==
    IF x.err # NoErr THEN [r |-> x.r, value |-> <<>>, err |-> x.err]
    ELSE IF x.ret = EOF THEN [r |-> x.r, value |-> <<>>, err |-> ErrEOD]
    ELSE ReadBytesLoop(x.r, x.u8, head + x.ret, length)

ReadBytesLoop(r, u8, head, length) ==
    IF ~(head < length)
    THEN [r |-> r, value |-> u8, err |-> NoErr]
    ELSE ReadBytesStep(RawRead(r, u8, head, length - head), head, length)

ReadBytes(r, length) == ReadBytesLoop(r, Zeros(length), 0, length)

\* u8[0] of the buffer readBytes(1) returned
Uint8Of(x) ==
    [r |-> x.r, value |-> IF x.err = NoErr THEN x.value[1] ELSE 0,
     bytes |-> x.value, err |-> x.err]

ReadUint8(r) == Uint8Of(ReadBytes(r, 1))

\* DataView.getUint16(0, littleEndian)
GetUint16(u8, le) == IF le THEN u8[1] + 256 * u8[2] ELSE 256 * u8[1] + u8[2]

Uint16Of(x, le) ==
    [r |-> x.r, value |-> IF x.err = NoErr THEN GetUint16(x.value, le) ELSE 0,
     bytes |-> x.value, err |-> x.err]

ReadUint16(r, le) == Uint16Of(ReadBytes(r, 2), le)

Close(r, readerCancelFails, streamCancelFails) ==
    IF r.kind = "ab" THEN ArrayBufferClose(r)
                     ELSE BlobClose(r, readerCancelFails, streamCancelFails)

----------------------------------------------------------------------------
(* Observations *)

\* bytes of the source not yet handed to a caller by this reader
Unread(r) ==
    IF r.kind = "ab" THEN Len(src) - r.head
    ELSE (Len(src) - r.pos)
         + (IF r.chunk.present THEN Len(r.chunk.data) - r.chunk.head ELSE 0)

\* what a call produced: ret is the returned number, bytes the bytes it
\* handed to the caller, buf the destination after a raw read
Outcome(ret, bytes, buf, err) == [ret |-> ret, bytes |-> bytes, buf |-> buf, err |-> err]

NoCall == [op |-> "new", n |-> 0, destLen |-> 0, byteOffset |-> Undef,
           byteLength |-> Undef, pre |-> NewArrayBufferReader,
           out |-> Outcome(0, <<>>, <<>>, NoErr)]

Record(op, n, destLen, byteOffset, byteLength, out) ==
    IF observe = "calls"
    THEN [op |-> op, n |-> n, destLen |-> destLen, byteOffset |-> byteOffset,
          byteLength |-> byteLength, pre |-> rd, out |-> out]
    ELSE last

Deliver(bytes) == IF observe = "stream" THEN delivered \o bytes ELSE delivered

\* the requested region lies within the destination
RequestFits(destLen, byteOffset, byteLength) ==
    OrDefault(byteOffset, 0) + OrDefault(byteLength, destLen) <= destLen

\* the bytes a successful raw read placed
Placed(x, byteOffset) ==
    IF x.err = NoErr /\ x.ret > 0
    THEN SubSeq(x.u8, OrDefault(byteOffset, 0) + 1, OrDefault(byteOffset, 0) + x.ret)
    ELSE <<>>

\* the chunkings compared call by call: sizes 1, 3, 7 and one single chunk
ChunkReaders == {"c1", "c3", "c7", "whole"}

NoOuts == [n |-> Undef, out |-> [c \in ChunkReaders |-> Outcome(0, <<>>, <<>>, NoErr)]]

\* no writer has been constructed, and nothing was called on one
NoWriter == [kind |-> "none"]
NoWrite == [op |-> "none"]

\* no call is suspended, no file writer was opened, nothing was converted
NoTask == [pc |-> "idle"]
NoFile == <<>>
NoTarget == [kind |-> "none"]

AsyncIdle ==
    /\ task = NoTask
    /\ file = NoFile
    /\ target = NoTarget

\* the writer side of the state in the specifications that only read
WriterIdle ==
    /\ AsyncIdle
    /\ wr = NoWriter
    /\ sink = <<>>
    /\ wlast = NoWrite
    /\ wrote = <<>>
    /\ got = <<>>

----------------------------------------------------------------------------
(* Spec: one reader, calls issued one after the other *)

\* the destination buffers handed to read
DestLens == {0, MaxDest}

InitReader(o) ==
    /\ src \in {SrcBytes(n) : n \in 0..MaxSrcLen}
    /\ rd \in {NewArrayBufferReader} \cup {NewBlobReader(c) : c \in Chunkings}
    /\ littleEndian = FALSE
    /\ observe = o
    /\ last = NoCall
    /\ delivered = <<>>
    /\ rds = <<>>
    /\ outs = NoOuts
    /\ WriterIdle

Init == InitReader("calls")

\* the effect of a call on the state: the reader after it, and what is
\* recorded of it (ret: the number returned, bytes: the bytes handed out)
Commit(op, n, destLen, byteOffset, byteLength, r, ret, bytes, buf, err) ==
    /\ rd' = r
    /\ last' = Record(op, n, destLen, byteOffset, byteLength,
                      Outcome(ret, bytes, buf, err))
    /\ delivered' = Deliver(bytes)
    /\ UNCHANGED <<src, littleEndian, observe, rds, outs,
                   wr, sink, wlast, wrote, got,
                   task, file, target>>

CommitRead(destLen, byteOffset, byteLength, x) ==
    Commit("read", 0, destLen, byteOffset, byteLength,
           x.r, x.ret, Placed(x, byteOffset), x.u8, x.err)

CommitBytes(op, n, x) ==
    Commit(op, n, 0, Undef, Undef, x.r, Len(x.value), x.value, <<>>, x.err)

CommitValue(op, n, x) ==
    Commit(op, n, 0, Undef, Undef, x.r, x.value, x.bytes, <<>>, x.err)

CommitClose(x) ==
    Commit("close", 0, 0, Undef, Undef, x.r, 0, <<>>, <<>>, x.err)

DoRead(destLen, byteOffset, byteLength) ==
    CommitRead(destLen, byteOffset, byteLength,
               RawRead(rd, Zeros(destLen), byteOffset, byteLength))

DoReadBytes(n) == CommitBytes("readBytes", n, ReadBytes(rd, n))

DoReadUint8 == CommitValue("readUint8", 1, ReadUint8(rd))

DoReadUint16 == CommitValue("readUint16", 2, ReadUint16(rd, littleEndian))

DoClose(readerCancelFails, streamCancelFails) ==
    CommitClose(Close(rd, readerCancelFails, streamCancelFails))

Next ==
    \/ \E destLen \in DestLens, byteOffset \in {Undef, 1},
          byteLength \in {Undef} \cup 0..MaxReq :
            DoRead(destLen, byteOffset, byteLength)
    \/ \E n \in 0..MaxReq : DoReadBytes(n)
    \/ DoReadUint8
    \/ DoReadUint16
    \/ \E rf \in BOOLEAN, sf \in BOOLEAN : DoClose(rf, sf)

Spec == Init /\ [][Next]_vars

----------------------------------------------------------------------------
(* SpecStream: the same reader, every read given a destination that holds *)
(* its request, recording the delivered bytes                             *)

InitStream == InitReader("stream")

DoFittingRead(destLen, byteOffset, byteLength) ==
    /\ RequestFits(destLen, byteOffset, byteLength)
    /\ DoRead(destLen, byteOffset, byteLength)

NextStream ==
    \/ \E destLen \in DestLens, byteOffset \in {Undef, 1},
          byteLength \in {Undef} \cup 0..MaxReq :
            DoFittingRead(destLen, byteOffset, byteLength)
    \/ \E n \in 0..MaxReq : DoReadBytes(n)
    \/ DoReadUint8
    \/ DoReadUint16
    \/ \E rf \in BOOLEAN, sf \in BOOLEAN : DoClose(rf, sf)

SpecStream == InitStream /\ [][NextStream]_vars

----------------------------------------------------------------------------
(* SpecChunks: four BlobDataReaders over the same bytes, chunked in sizes   *)
(* 1, 3, 7 and as one chunk, all given the same readBytes calls             *)

InitChunks ==
    /\ src \in {SrcBytes(n) : n \in 0..MaxSrcLen}
    /\ rds = [c \in ChunkReaders |-> NewBlobReader(c)]
    /\ outs = NoOuts
    /\ rd = NewArrayBufferReader
    /\ littleEndian = FALSE
    /\ observe = "chunks"
    /\ last = NoCall
    /\ delivered = <<>>
    /\ WriterIdle

\* what readBytes did on one of the readers
BytesOutcome(x) == Outcome(Len(x.value), x.value, <<>>, x.err)

CommitChunks(n, x) ==
    /\ rds' = [c \in ChunkReaders |-> x[c].r]
    /\ outs' = [n |-> n, out |-> [c \in ChunkReaders |-> BytesOutcome(x[c])]]
    /\ UNCHANGED <<src, rd, littleEndian, observe, last, delivered,
                   wr, sink, wlast, wrote, got,
                   task, file, target>>

ChunksReadBytes(n) ==
    CommitChunks(n, [c \in ChunkReaders |-> ReadBytes(rds[c], n)])

NextChunks == \E n \in 0..MaxReq : ChunksReadBytes(n)

SpecChunks == InitChunks /\ [][NextChunks]_vars

----------------------------------------------------------------------------
(* Properties *)

IsBlob(r) == r.kind = "blob"

\* the reader was usable (not CLOSED) before the last call
OpenBefore == IsBlob(last.pre) => last.pre.state # CLOSED

\* bytes of the source handed out before the last call, and the next n of them
ConsumedBefore == Len(src) - Unread(last.pre)
NextBytes(n) == SubSeq(src, ConsumedBefore + 1, ConsumedBefore + n)

ReadOps == {"read", "readBytes", "readUint8", "readUint16"}

\* the last call was a raw read asking for at least one byte, into a
\* destination that holds the requested region
ReadRequest ==
    /\ last.op = "read"
    /\ last.byteLength > 0
    /\ RequestFits(last.destLen, last.byteOffset, last.byteLength)

\* C1: the same readBytes call has the same outcome (the same bytes, or the
\* same failure) on the readers fed chunks of size 1, 3, 7 and one single chunk
ChunkBoundaryIndependence ==
    \A c \in ChunkReaders, d \in ChunkReaders : outs.out[c] = outs.out[d]

\* C2: a BlobDataReader read of length > 0 that returns a count r has
\* r <= length, has placed the next r stream bytes at dest[offset, offset+r),
\* and has r < length only if the stream ended
ReadCountWithinLength ==
    (/\ ReadRequest
     /\ IsBlob(last.pre)
     /\ last.out.err = NoErr
     /\ last.out.ret # EOF)
    => /\ last.out.ret <= last.byteLength
       /\ last.out.bytes = NextBytes(last.out.ret)
       /\ (last.out.ret < last.byteLength => Unread(rd) = 0)

\* C3: the bytes delivered by the successful calls, in call order, are a
\* prefix of the source: none skipped, duplicated or reordered
SingleConsistentStream ==
    /\ Len(delivered) <= Len(src)
    /\ delivered = SubSeq(src, 1, Len(delivered))

\* C4: readBytes(n) on a usable reader with at least n bytes left returns
\* exactly the next n bytes and advances the position by exactly n
ReadBytesExact ==
    (/\ last.op = "readBytes"
     /\ OpenBefore
     /\ Unread(last.pre) >= last.n)
    => /\ last.out.err = NoErr
       /\ last.out.bytes = NextBytes(last.n)
       /\ Unread(rd) = Unread(last.pre) - last.n

\* the last call was a readBytes(n), n > 0, on a usable reader with fewer
\* than n bytes left
Underflow ==
    /\ last.op = "readBytes"
    /\ last.n > 0
    /\ OpenBefore
    /\ Unread(last.pre) < last.n

\* C5: an underflowing readBytes fails with 'Unexpected end of data', hands
\* out no bytes, and leaves the reader where close() completes without error
\* whatever the cancellations do
UnderflowFails ==
    Underflow
    => /\ last.out.err = ErrEOD
       /\ last.out.bytes = <<>>
       /\ \A rf \in BOOLEAN, sf \in BOOLEAN : Close(rd, rf, sf).err = NoErr

\* C5 witness: an underflow that met some bytes before the end of the stream,
\* on a BlobDataReader that had acquired its stream reader
UnderflowSeen ==
    /\ Underflow
    /\ IsBlob(rd)
    /\ Unread(last.pre) > 0
    /\ rd.state = INITIALIZED
    /\ last.out.err = ErrEOD

\* C6: a read with byteLength > 0 that returns, returns EOF exactly when no
\* byte was left, and a strictly positive count otherwise: never 0
ReadNeverZero ==
    (/\ ReadRequest
     /\ last.out.err = NoErr)
    => /\ last.out.ret # 0
       /\ (last.out.ret = EOF <=> Unread(last.pre) = 0)

\* C7: a read with byteLength = 0 returns 0 and leaves the reader and its
\* source untouched, on every backend and in every state
ZeroLengthRead ==
    (last.op = "read" /\ last.byteLength = 0)
    => /\ last.out.err = NoErr
       /\ last.out.ret = 0
       /\ rd = last.pre

\* C8: a read operation that asks a CLOSED BlobDataReader for at least one
\* byte fails with the closed error and delivers no data
ClosedReadsFail ==
    (/\ last.op \in ReadOps
     /\ IsBlob(last.pre)
     /\ last.pre.state = CLOSED
     /\ (last.op = "read" => ReadRequest)
     /\ (last.op = "readBytes" => last.n > 0))
    => /\ last.out.err = ErrClosed
       /\ last.out.bytes = <<>>

\* the last call pulled from the source: the stream handed out a chunk or
\* signalled its end
Pulled == rd.pos # last.pre.pos \/ rd.ended # last.pre.ended

\* C9: a BlobDataReader starts UNINITIALIZED; a read that pulls from the
\* source moves it to INITIALIZED and no other read does; the stream reader
\* is acquired exactly once, on that move; close() moves it to CLOSED from any
\* state; no call leaves CLOSED
Lifecycle ==
    IsBlob(rd) =>
      /\ rd.acquired = (IF rd.state = UNINITIALIZED THEN 0
                        ELSE IF rd.state = INITIALIZED THEN 1
                        ELSE last.pre.acquired)
      /\ rd.acquired <= 1
      /\ last.op = "new" => rd.state = UNINITIALIZED
      /\ last.op = "close" => rd.state = CLOSED
      /\ last.op \in ReadOps =>
            /\ last.pre.state = CLOSED => rd.state = CLOSED
            /\ last.pre.state = INITIALIZED => rd.state = INITIALIZED
            /\ last.pre.state = UNINITIALIZED =>
                  rd.state = (IF Pulled THEN INITIALIZED ELSE UNINITIALIZED)

\* C9 witness: a read issued on a reader that had been INITIALIZED and then
\* CLOSED finds it CLOSED and leaves it CLOSED
ReadAfterClose ==
    /\ IsBlob(rd)
    /\ last.op \in ReadOps
    /\ last.pre.state = CLOSED
    /\ rd.state = CLOSED
    /\ rd.acquired = 1
    /\ rd.cancels = 1

\* C10: close() on an INITIALIZED BlobDataReader completes without raising,
\* ends in CLOSED and has discarded the buffered chunk, whether or not the
\* cancellations fail
CloseSwallowsCancelFailures ==
    (/\ last.op = "close"
     /\ IsBlob(last.pre)
     /\ last.pre.state = INITIALIZED)
    => /\ last.out.err = NoErr
       /\ rd.state = CLOSED
       /\ ~rd.chunk.present

\* C11: a repeated close() (on a reader that is already CLOSED) never raises,
\* cancels nothing and leaves the reader CLOSED with no chunk; close() after
\* the stream ended never raises; the stream reader is cancelled at most
\* once, by a close() that found the reader INITIALIZED; close() on the
\* in-memory reader does nothing
CloseIdempotent ==
    /\ IsBlob(rd) => (rd.cancels <= 1 /\ (rd.cancels = 1 => rd.acquired = 1))
    /\ (last.op = "close" /\ IsBlob(last.pre)) =>
          /\ rd.state = CLOSED
          /\ rd.cancels = last.pre.cancels
                          + (IF last.pre.state = INITIALIZED THEN 1 ELSE 0)
          /\ last.pre.ended => (last.out.err = NoErr /\ ~rd.chunk.present)
          /\ last.pre.state = CLOSED =>
                /\ last.out.err = NoErr
                /\ rd = [last.pre EXCEPT !.chunk = NullChunk]
    /\ (last.op = "close" /\ ~IsBlob(last.pre)) =>
          (last.out.err = NoErr /\ rd = last.pre)

\* C11 witness: a second close() on a reader whose first close() cancelled
\* the stream reader after the stream had ended
ClosedTwice ==
    /\ last.op = "close"
    /\ IsBlob(last.pre)
    /\ last.pre.state = CLOSED
    /\ last.pre.cancels = 1
    /\ last.pre.ended
    /\ last.out.err = NoErr

----------------------------------------------------------------------------
(* ArrayBufferDataWriter *)

MaxBuf    == 3      \* longest buffer handed to write
MaxData   == 6      \* SpecWriter: no write is issued once more than MaxData - MaxBuf bytes are held
MaxCloses == 2      \* SpecWriter: invocations of the close action

\* new ArrayBufferDataWriter(initialCapacity, closeAction); closeAction is
\* whether a function was given
NewArrayBufferWriter(initialCapacity, closeAction) ==
    [kind |-> "abw",
     buf |-> Zeros(initialCapacity),
     capacity |-> initialCapacity,
     len |-> 0,
     closeAction |-> closeAction,
     initialCapacity |-> initialCapacity,
     littleEndian |-> FALSE,          \* AbstractDataWriter._littleEndian
     scratch |-> Zeros(8)]            \* AbstractDataWriter._buffer

\* get data(): the first _len bytes of the backing buffer
Data(w) == SubSeq(w.buf, 1, w.len)

\* u8.subarray(begin, end) for begin, end >= 0: both clamped to the length
Subarray(u8, begin, end) == SubSeq(u8, Min(begin, Len(u8)) + 1, Min(end, Len(u8)))

\* x << 1 on a 32-bit integer
Shl1(x) == IF x < 1073741824 THEN 2 * x ELSE 2 * (x - 1073741824) - 2147483647 - 1

\* growth by half the capacity instead of doubling
NextCapacityHalfAgain(capacity) == capacity + (capacity \div 2) + 1

\* nc = this._capacity << 1
NextCapacity(capacity) == Shl1(capacity)

\* a reallocation that forgets to carry the bytes over
ReallocFresh(buf, len, nc, hasTransfer) == Zeros(nc)

\* the new backing buffer of nc bytes: ArrayBuffer.prototype.transfer where
\* the platform has it, else a fresh buffer with the first len bytes copied
Realloc(buf, len, nc, hasTransfer) ==
    IF hasTransfer
    THEN [i \in 1..nc |-> IF i <= Len(buf) THEN buf[i] ELSE 0]
    ELSE SetBytes(Zeros(nc), SubSeq(buf, 1, len), 0)

\* one round of the growth loop
Grown(w, nc, hasTransfer) ==
    [w EXCEPT !.buf = Realloc(w.buf, w.len, nc, hasTransfer), !.capacity = nc]

RECURSIVE Grow(_, _, _)
\* while ((this._capacity - this._len) < byteLength) { ... }
Grow(w, byteLength, hasTransfer) ==
    IF w.capacity - w.len < byteLength
    THEN Grow(Grown(w, NextCapacity(w.capacity), hasTransfer), byteLength, hasTransfer)
    ELSE w

\* (new Uint8Array(this._buf, this._len, byteLength)).set(view, 0);
\* this._len += byteLength
Store(w, view, byteLength) ==
    IF w.len + byteLength > Len(w.buf)
    THEN [w |-> w, err |-> ErrRange]
    ELSE [w |-> [w EXCEPT !.buf = SetBytes(w.buf, view, w.len),
                          !.len = w.len + byteLength],
          err |-> NoErr]

\* write, after the defaults of byteOffset and byteLength were applied
WriteView(w, u8, byteOffset, byteLength, hasTransfer) ==
    Store(Grow(w, byteLength, hasTransfer),
          Subarray(u8, byteOffset, byteOffset + byteLength), byteLength)

\* write(buf, byteOffset, byteLength)
ArrayBufferWrite(w, u8, byteOffset, byteLength, hasTransfer) ==
    WriteView(w, u8, OrDefault(byteOffset, 0), OrDefault(byteLength, Len(u8)),
              hasTransfer)

\* close(): the close action is called with the writer; what the sink
\* receives is the data the writer holds at that moment
ArrayBufferWriterClose(w, snk) ==
    IF w.closeAction THEN Append(snk, Data(w)) ELSE snk

----------------------------------------------------------------------------
(* SpecWriter: one ArrayBufferDataWriter, calls issued one after the other *)

\* the constructor's default capacity, and two small ones that make the
\* buffer grow within a few writes
InitialCapacities == {1, 3, 16}

\* the reader side of the state in the specifications that only write
ReaderIdle(o) ==
    /\ src = <<>>
    /\ rd = NewArrayBufferReader
    /\ littleEndian = FALSE
    /\ observe = o
    /\ last = NoCall
    /\ delivered = <<>>
    /\ rds = <<>>
    /\ outs = NoOuts
    /\ AsyncIdle

InitWriter ==
    /\ wr \in {NewArrayBufferWriter(c, h) : c \in InitialCapacities, h \in BOOLEAN}
    /\ sink = <<>>
    /\ wlast = NoWrite
    /\ wrote = <<>>
    /\ got = <<>>
    /\ ReaderIdle("writer")

\* what is recorded of a call on the writer
WCall(op, u8, byteOffset, byteLength, err) ==
    [op |-> op, u8 |-> u8, byteOffset |-> byteOffset, byteLength |-> byteLength,
     pre |-> wr, err |-> err]

CommitWrite(u8, byteOffset, byteLength, x) ==
    /\ wr' = x.w
    /\ wlast' = WCall("write", u8, byteOffset, byteLength, x.err)
    /\ UNCHANGED <<src, rd, littleEndian, observe, last, delivered, rds, outs,
                   sink, wrote, got,
                   task, file, target>>

DoWrite(u8, byteOffset, byteLength) ==
    /\ wr.len <= MaxData - MaxBuf
    /\ \E hasTransfer \in BOOLEAN :
          CommitWrite(u8, byteOffset, byteLength,
                      ArrayBufferWrite(wr, u8, byteOffset, byteLength, hasTransfer))

DoWriterClose ==
    /\ Len(sink) < MaxCloses
    /\ sink' = ArrayBufferWriterClose(wr, sink)
    /\ wlast' = WCall("close", <<>>, Undef, Undef, NoErr)
    /\ UNCHANGED <<src, rd, littleEndian, observe, last, delivered, rds, outs,
                   wr, wrote, got,
                   task, file, target>>

NextWriter ==
    \/ \E n \in {0, MaxBuf}, byteOffset \in {Undef, 0, 1},
          byteLength \in {Undef} \cup 0..MaxBuf :
          DoWrite(SrcBytes(n), byteOffset, byteLength)
    \/ DoWriterClose

SpecWriter == InitWriter /\ [][NextWriter]_vars

----------------------------------------------------------------------------
(* Properties of the writer *)

\* what the last write asked for: the offset, and the bytes src[offset, offset+length)
WriteOffset == IF wlast.byteOffset = Undef THEN 0 ELSE wlast.byteOffset
WriteRequested == SubSeq(wlast.u8, WriteOffset + 1, WriteOffset + wlast.byteLength)

\* C12: close() leaves the writer as it is; with a close action, the sink has
\* received the writer's data exactly once however often close() was called,
\* and what a close() hands over is all the data written before it; without
\* a close action the sink receives nothing
CloseEffectOnce ==
    wlast.op = "close" =>
        /\ wr = wlast.pre
        /\ ~wr.closeAction => sink = <<>>
        /\ wr.closeAction => (Len(sink) = 1 /\ sink[Len(sink)] = Data(wlast.pre))

RECURSIVE IsDoubling(_, _)
\* capacity = initialCapacity * 2^k for some k >= 0
IsDoubling(capacity, initialCapacity) ==
    \/ capacity = initialCapacity
    \/ /\ capacity > initialCapacity
       /\ capacity % 2 = 0
       /\ IsDoubling(capacity \div 2, initialCapacity)

\* C13: the length written never exceeds the capacity, the backing buffer is
\* exactly capacity bytes long, the capacity is the initial capacity doubled
\* some number of times, and no call makes it smaller
BackingBuffer ==
    /\ wr.len <= wr.capacity
    /\ Len(wr.buf) = wr.capacity
    /\ IsDoubling(wr.capacity, wr.initialCapacity)
    /\ wlast.op # "none" =>
          (wr.capacity >= wlast.pre.capacity
           /\ IsDoubling(wr.capacity, wlast.pre.capacity))

\* C13 witness: a write on a writer that already holds bytes doubled the
\* capacity twice
GrewTwice ==
    /\ wlast.op = "write"
    /\ wlast.pre.len > 0
    /\ wr.capacity = 4 * wlast.pre.capacity
    /\ wr.len > 2 * wlast.pre.capacity

\* C14: write(src, offset, length) with an explicit length >= 0 that lies
\* within src advances the length written by exactly length, and afterwards
\* data is the previous data followed by src[offset, offset+length)
WriteConsumesLength ==
    (/\ wlast.op = "write"
     /\ wlast.byteLength # Undef
     /\ WriteOffset + wlast.byteLength <= Len(wlast.u8)) =>
        /\ wlast.err = NoErr
        /\ wr.len = wlast.pre.len + wlast.byteLength
        /\ Data(wr) = Data(wlast.pre) \o WriteRequested

----------------------------------------------------------------------------
(* SpecGrowth: one byte sequence written to an ArrayBufferDataWriter as     *)
(* consecutive non-empty pieces                                             *)

MaxTotal == 40      \* length of the byte sequence that is split
MaxPiece == 3       \* longest piece written by one call

\* the byte sequence that is split
Whole == SrcBytes(MaxTotal)

InitGrowth ==
    /\ wr \in {NewArrayBufferWriter(c, FALSE) : c \in InitialCapacities}
    /\ sink = <<>>
    /\ wlast = NoWrite
    /\ wrote = <<>>
    /\ got = <<>>
    /\ ReaderIdle("growth")

\* write(piece): the next k bytes, handed over as a buffer of their own
WritePiece(k) ==
    /\ wr.len + k <= MaxTotal
    /\ \E hasTransfer \in BOOLEAN :
          CommitWrite(SubSeq(Whole, wr.len + 1, wr.len + k), Undef, Undef,
                      ArrayBufferWrite(wr, SubSeq(Whole, wr.len + 1, wr.len + k),
                                       Undef, Undef, hasTransfer))

\* write(whole, offset, k): the next k bytes, as a range of the whole sequence
WriteSlice(k) ==
    /\ wr.len + k <= MaxTotal
    /\ \E hasTransfer \in BOOLEAN :
          CommitWrite(Whole, wr.len, k,
                      ArrayBufferWrite(wr, Whole, wr.len, k, hasTransfer))

NextGrowth ==
    \/ \E k \in 1..MaxPiece : WritePiece(k)
    \/ \E k \in 1..MaxPiece : WriteSlice(k)

SpecGrowth == InitGrowth /\ [][NextGrowth]_vars

\* the writer after one single write(bytes) on a new writer
SingleWrite(initialCapacity, bytes, hasTransfer) ==
    ArrayBufferWrite(NewArrayBufferWriter(initialCapacity, FALSE), bytes,
                     Undef, Undef, hasTransfer).w

\* C15: after any split of the first n bytes into consecutive non-empty
\* writes, data is those n bytes, the same as after one single write of them
SplitWritesAgree ==
    /\ Data(wr) = SubSeq(Whole, 1, wr.len)
    /\ \A hasTransfer \in BOOLEAN :
          Data(wr) = Data(SingleWrite(wr.initialCapacity, SubSeq(Whole, 1, wr.len),
                                      hasTransfer))

\* C15 witness: a writer of initial capacity 16 whose buffer has grown twice,
\* the last time in a write that found earlier bytes in it
GrownAcrossWrites ==
    /\ wlast.op = "write"
    /\ wr.initialCapacity > MaxPiece
    /\ wr.capacity >= 4 * wr.initialCapacity
    /\ wlast.pre.len > 0
    /\ wlast.pre.capacity < wr.capacity

----------------------------------------------------------------------------
(* AbstractDataReader.readAll *)

\* let capacity: number = 4096
ReadAllCapacity == 4096

RECURSIVE ReadAllLoop(_, _, _, _, _)

\* the body of readAll's loop, x being what this.read(buf, length,
\* capacity - length) did; at EOF the result is realloc(length) of the
\* scratch buffer (the "bytes" encoding)
ReadAllStep(x, length, capacity, hasTransfer) ==
    IF x.err # NoErr THEN [r |-> x.r, value |-> <<>>, err |-> x.err]
    ELSE IF x.ret = EOF
    THEN [r |-> x.r, value |-> Realloc(x.u8, length, length, hasTransfer), err |-> NoErr]
    ELSE IF length + x.ret = capacity
    THEN ReadAllLoop(x.r, Realloc(x.u8, length + x.ret, NextCapacity(capacity), hasTransfer),
                     length + x.ret, NextCapacity(capacity), hasTransfer)
    ELSE ReadAllLoop(x.r, x.u8, length + x.ret, capacity, hasTransfer)

ReadAllLoop(r, buf, length, capacity, hasTransfer) ==
    ReadAllStep(RawRead(r, buf, length, capacity - length), length, capacity, hasTransfer)

\* readAll() / readAll("bytes")
ReadAll(r, hasTransfer) ==
    ReadAllLoop(r, Zeros(ReadAllCapacity), 0, ReadAllCapacity, hasTransfer)

----------------------------------------------------------------------------
(* SpecReadAll: one reader over a short or a long source, drained by readAll *)
(* after at most a few bytes were read                                      *)

\* source lengths below, at and above the scratch capacity
ShortLens == {0, 1, MaxSrcLen}
LongLens  == {ReadAllCapacity - 1, ReadAllCapacity, ReadAllCapacity + 1,
              2 * ReadAllCapacity, 2 * ReadAllCapacity + MaxSrcLen}

InitReadAll ==
    /\ \/ /\ src \in {SrcBytes(n) : n \in ShortLens}
          /\ rd \in {NewArrayBufferReader} \cup {NewBlobReader(c) : c \in Chunkings}
       \/ /\ src \in {SrcBytes(n) : n \in LongLens}
          /\ rd \in {NewArrayBufferReader, NewBlobReader("whole"), NewBlobReader("big")}
    /\ littleEndian = FALSE
    /\ observe = "calls"
    /\ last = NoCall
    /\ delivered = <<>>
    /\ rds = <<>>
    /\ outs = NoOuts
    /\ WriterIdle

DoReadAll == \E hasTransfer \in BOOLEAN : CommitBytes("readAll", 0, ReadAll(rd, hasTransfer))

\* readBytes, while fewer than MaxReq bytes were taken from the source
DoReadPrefix(n) ==
    /\ Len(src) - Unread(rd) < MaxReq
    /\ DoReadBytes(n)

NextReadAll ==
    \/ DoReadAll
    \/ \E n \in 1..MaxReq : DoReadPrefix(n)

SpecReadAll == InitReadAll /\ [][NextReadAll]_vars

\* C16: readAll() on a usable reader returns exactly the bytes from the
\* current position to the end of the source, whatever the source length and
\* chunking, and leaves nothing unread
ReadAllDrains ==
    (last.op = "readAll" /\ OpenBefore) =>
        /\ last.out.err = NoErr
        /\ last.out.bytes = SubSeq(src, ConsumedBefore + 1, Len(src))
        /\ Unread(rd) = 0

----------------------------------------------------------------------------
(* Integers and their bytes.  An integer is its sign and its magnitude in   *)
(* eight base-256 digits, most significant first (the widest type has 64    *)
(* bits); zero is not negative.                                             *)

Reverse(s) == [i \in 1..Len(s) |-> s[Len(s) + 1 - i]]

\* the integer k, for -2^31 < k < 2^31
IntValue(k) ==
    [neg |-> k < 0,
     mag |-> [i \in 1..8 |-> IF i <= 4 THEN 0
                             ELSE ((IF k < 0 THEN -k ELSE k) \div (256 ^ (8 - i))) % 256]]

\* the number a value stands for, for 0 <= value < 2^31
NumberOf(v) == v.mag[5] * 16777216 + v.mag[6] * 65536 + v.mag[7] * 256 + v.mag[8]

IntTypes == {"Uint8", "Int8", "Uint16", "Int16", "Uint32", "Int32", "Uint64", "Int64"}

\* bytes and signedness of a type
ByteWidth(type) ==
    CASE type \in {"Uint8", "Int8"}   -> 1
      [] type \in {"Uint16", "Int16"} -> 2
      [] type \in {"Uint32", "Int32"} -> 4
      [] OTHER                        -> 8

IsSigned(type) == type \in {"Int8", "Int16", "Int32", "Int64"}

\* n digits in front of eight-digit magnitudes cut off, or zeros put in front
LowDigits(mag, n) == SubSeq(mag, 8 - n + 1, 8)
Widen(digits) == Zeros(8 - Len(digits)) \o digits

RECURSIVE Increment(_, _)
\* digits + 1 modulo 256^Len(digits), the carry entering at position i
Increment(digits, i) ==
    IF i = 0 THEN digits
    ELSE IF digits[i] = 255
    THEN Increment([j \in 1..Len(digits) |-> IF j = i THEN 0 ELSE digits[j]], i - 1)
    ELSE [j \in 1..Len(digits) |-> IF j = i THEN digits[j] + 1 ELSE digits[j]]

\* -digits modulo 256^Len(digits): the two's complement
Negate(digits) == Increment([i \in 1..Len(digits) |-> 255 - digits[i]], Len(digits))

\* the n bytes with the byte order the wrong way round
NumericToRawBytesSwapped(v, n, le) ==
    IF le
    THEN (IF v.neg THEN Negate(LowDigits(v.mag, n)) ELSE LowDigits(v.mag, n))
    ELSE Reverse(IF v.neg THEN Negate(LowDigits(v.mag, n)) ELSE LowDigits(v.mag, n))

\* the n bytes DataView.setUintN / setIntN / setBigUint64 / setBigInt64 store
\* for v: v modulo 2^(8n), most significant byte first unless littleEndian
NumericToRawBytes(v, n, le) ==
    IF le
    THEN Reverse(IF v.neg THEN Negate(LowDigits(v.mag, n)) ELSE LowDigits(v.mag, n))
    ELSE (IF v.neg THEN Negate(LowDigits(v.mag, n)) ELSE LowDigits(v.mag, n))

\* the value of big-endian digits read as unsigned or as two's complement
ValueOfDigits(be, signed) ==
    IF signed /\ be[1] >= 128
    THEN [neg |-> TRUE, mag |-> Widen(Negate(be))]
    ELSE [neg |-> FALSE, mag |-> Widen(be)]

\* a signed read that takes the bytes for an unsigned number
RawBytesToNumericUnsigned(bytes, signed, le) ==
    ValueOfDigits(IF le THEN Reverse(bytes) ELSE bytes, FALSE)

\* DataView.getUintN / getIntN / getBigUint64 / getBigInt64
RawBytesToNumeric(bytes, signed, le) ==
    ValueOfDigits(IF le THEN Reverse(bytes) ELSE bytes, signed)

\* the values written: zero, small ones, ones with the top bit set, and the
\* smallest and largest of the type
MaxUnsigned(n) == [neg |-> FALSE, mag |-> Widen([i \in 1..n |-> 255])]
MaxSigned(n)   == [neg |-> FALSE, mag |-> Widen([i \in 1..n |-> IF i = 1 THEN 127 ELSE 255])]
MinSigned(n)   == [neg |-> TRUE,  mag |-> Widen([i \in 1..n |-> IF i = 1 THEN 128 ELSE 0])]

ValuesOf(type) ==
    IF IsSigned(type)
    THEN {MinSigned(ByteWidth(type)), IntValue(-2), IntValue(0), IntValue(42),
          MaxSigned(ByteWidth(type))}
    ELSE {IntValue(0), IntValue(42), IntValue(200), MaxUnsigned(ByteWidth(type))}

----------------------------------------------------------------------------
(* Strings and their bytes.  A string is its sequence of UTF-16 code units. *)

MaxStrLen == 2      \* longest string written, in code units

\* "A", e-acute, the euro sign, U+FEFF, and the surrogate pair of U+1F600
Units == {65, 233, 8364, 65279, 55357, 56832}

IsHighSurrogate(u) == u >= 55296 /\ u <= 56319
IsLowSurrogate(u)  == u >= 56320 /\ u <= 57343

\* the UTF-8 bytes of one code point
EncodeCodePoint(c) ==
    IF c < 128 THEN <<c>>
    ELSE IF c < 2048 THEN <<192 + (c \div 64), 128 + (c % 64)>>
    ELSE IF c < 65536
    THEN <<224 + (c \div 4096), 128 + ((c \div 64) % 64), 128 + (c % 64)>>
    ELSE <<240 + (c \div 262144), 128 + ((c \div 4096) % 64),
           128 + ((c \div 64) % 64), 128 + (c % 64)>>

RECURSIVE Utf8Encode(_)
\* TextEncoder.encode: a surrogate pair is one code point, a lone surrogate
\* is replaced by U+FFFD
Utf8Encode(s) ==
    IF s = <<>> THEN <<>>
    ELSE IF Len(s) >= 2 /\ IsHighSurrogate(s[1]) /\ IsLowSurrogate(s[2])
    THEN EncodeCodePoint(65536 + (s[1] - 55296) * 1024 + (s[2] - 56320))
         \o Utf8Encode(SubSeq(s, 3, Len(s)))
    ELSE IF IsHighSurrogate(s[1]) \/ IsLowSurrogate(s[1])
    THEN EncodeCodePoint(65533) \o Utf8Encode(Tail(s))
    ELSE EncodeCodePoint(s[1]) \o Utf8Encode(Tail(s))

\* the length of the sequence a lead byte announces, 0 for an invalid one
SequenceLength(lead) ==
    IF lead < 128 THEN 1
    ELSE IF lead >= 194 /\ lead <= 223 THEN 2
    ELSE IF lead >= 224 /\ lead <= 239 THEN 3
    ELSE IF lead >= 240 /\ lead <= 244 THEN 4
    ELSE 0

\* the first n bytes of b are a lead byte and n - 1 continuation bytes
IsSequence(b, n) ==
    /\ n >= 1
    /\ Len(b) >= n
    /\ \A i \in 2..n : b[i] >= 128 /\ b[i] <= 191

\* the code point of a sequence of n bytes
CodePointOf(b, n) ==
    CASE n = 1 -> b[1]
      [] n = 2 -> (b[1] - 192) * 64 + (b[2] - 128)
      [] n = 3 -> (b[1] - 224) * 4096 + (b[2] - 128) * 64 + (b[3] - 128)
      [] OTHER -> (b[1] - 240) * 262144 + (b[2] - 128) * 4096
                  + (b[3] - 128) * 64 + (b[4] - 128)

\* the code units of one code point
UnitsOf(c) ==
    IF c < 65536 THEN <<c>>
    ELSE <<55296 + ((c - 65536) \div 1024), 56320 + ((c - 65536) % 1024)>>

RECURSIVE Utf8Decode(_)
\* the code units of UTF-8 bytes; a byte that starts no sequence becomes U+FFFD
Utf8Decode(b) ==
    IF b = <<>> THEN <<>>
    ELSE IF IsSequence(b, SequenceLength(b[1]))
    THEN UnitsOf(CodePointOf(b, SequenceLength(b[1])))
         \o Utf8Decode(SubSeq(b, SequenceLength(b[1]) + 1, Len(b)))
    ELSE <<65533>> \o Utf8Decode(Tail(b))

\* (new TextDecoder()).decode(b): ignoreBOM is false by default, so a leading
\* byte order mark EF BB BF is not part of the result
TextDecode(b) ==
    IF Len(b) >= 3 /\ SubSeq(b, 1, 3) = <<239, 187, 191>>
    THEN Utf8Decode(SubSeq(b, 4, Len(b)))
    ELSE Utf8Decode(b)

----------------------------------------------------------------------------
(* AbstractDataWriter: typed writes *)

\* this._buffer.setUintN(0, ...): the bytes go to the front of the scratch
SetScratch(w, bytes) == [w EXCEPT !.scratch = SetBytes(@, bytes, 0)]

\* await this.write(this._buffer, 0, n)
WriteScratch(w, n, hasTransfer) == ArrayBufferWrite(w, w.scratch, 0, n, hasTransfer)

\* typed writes that always store most significant byte first
WriteNumericBigEndian(w, type, v, hasTransfer) ==
    WriteScratch(SetScratch(w, NumericToRawBytes(v, ByteWidth(type), FALSE)),
                 ByteWidth(type), hasTransfer)

\* writeUint8 .. writeInt64; the 8-bit setters take no littleEndian argument
WriteNumeric(w, type, v, hasTransfer) ==
    WriteScratch(SetScratch(w, NumericToRawBytes(v, ByteWidth(type),
                                                 ByteWidth(type) > 1 /\ w.littleEndian)),
                 ByteWidth(type), hasTransfer)

\* await this.write(bin), x being what writeUint32(bin.length) did
WriteBin(x, bin, hasTransfer) ==
    IF x.err # NoErr THEN x ELSE ArrayBufferWrite(x.w, bin, Undef, Undef, hasTransfer)

\* writeString(s)
WriteString(w, s, hasTransfer) ==
    WriteBin(WriteNumeric(w, "Uint32", IntValue(Len(Utf8Encode(s))), hasTransfer),
             Utf8Encode(s), hasTransfer)

----------------------------------------------------------------------------
(* AbstractDataReader: typed reads *)

\* dv.getUintN(0, littleEndian) of the buffer readBytes returned
NumericOf(x, signed, le) ==
    [r |-> x.r,
     value |-> IF x.err = NoErr THEN RawBytesToNumeric(x.value, signed, le) ELSE IntValue(0),
     err |-> x.err]

\* readUint8 .. readInt64; the 8-bit reads take no littleEndian argument
ReadNumeric(r, type, le) ==
    NumericOf(ReadBytes(r, ByteWidth(type)), IsSigned(type), ByteWidth(type) > 1 /\ le)

\* (new TextDecoder()).decode(data)
StringOf(y) ==
    [r |-> y.r, value |-> IF y.err = NoErr THEN TextDecode(y.value) ELSE <<>>, err |-> y.err]

\* readBytes(len) and the decoding, x being what readUint32() did
ReadStringBody(x) ==
    IF x.err # NoErr THEN [r |-> x.r, value |-> <<>>, err |-> x.err]
    ELSE StringOf(ReadBytes(x.r, NumberOf(x.value)))

\* readString()
ReadString(r, le) == ReadStringBody(ReadNumeric(r, "Uint32", le))

\* readBytes(n), as a typed read
BytesOf(x) == [r |-> x.r, value |-> x.value, err |-> x.err]

----------------------------------------------------------------------------
(* SpecCodec: an ArrayBufferDataWriter of capacity 16 receives two raw      *)
(* bytes (or none), a typed value, and a second typed value (or none); its  *)
(* data is then read back in the same order through an                     *)
(* ArrayBufferDataReader.  The littleEndian flags of the writer and of the  *)
(* reader are set freely between the calls.                                 *)

\* the raw bytes written in front
Magic == <<202, 254>>

\* the strings written
Strings == UNION {[1..n -> Units] : n \in 0..MaxStrLen}

\* the second typed values
Seconds == {[type |-> "Uint16", value |-> IntValue(42)],
            [type |-> "Int32", value |-> IntValue(-2)]}

InitCodec ==
    /\ wr = NewArrayBufferWriter(16, FALSE)
    /\ sink = <<>>
    /\ wlast = NoWrite
    /\ wrote = <<>>
    /\ got = <<>>
    /\ ReaderIdle("write")

\* the typed values written so far
TypedCount ==
    Len(wrote) - (IF wrote # <<>> /\ wrote[1].type = "Bytes" THEN 1 ELSE 0)

\* what is recorded of a write: the call, the flag when it was issued, and
\* the range of data it produced
CommitItem(type, value, x) ==
    /\ observe = "write"
    /\ wr' = x.w
    /\ wrote' = Append(wrote, [type |-> type, value |-> value, le |-> wr.littleEndian,
                               at |-> wr.len, end |-> x.w.len, err |-> x.err])
    /\ UNCHANGED <<src, rd, littleEndian, observe, last, delivered, rds, outs,
                   sink, wlast, got,
                   task, file, target>>

DoWriteMagic ==
    /\ wrote = <<>>
    /\ \E hasTransfer \in BOOLEAN :
          CommitItem("Bytes", Magic, ArrayBufferWrite(wr, Magic, Undef, Undef, hasTransfer))

DoWriteNumeric(type, v) ==
    /\ TypedCount = 0
    /\ \E hasTransfer \in BOOLEAN :
          CommitItem(type, v, WriteNumeric(wr, type, v, hasTransfer))

DoWriteString(s) ==
    /\ TypedCount = 0
    /\ \E hasTransfer \in BOOLEAN :
          CommitItem("String", s, WriteString(wr, s, hasTransfer))

DoWriteSecond(type, v) ==
    /\ TypedCount = 1
    /\ \E hasTransfer \in BOOLEAN :
          CommitItem(type, v, WriteNumeric(wr, type, v, hasTransfer))

\* writer.littleEndian = v
DoSetWriterEndian(v) ==
    /\ observe = "write"
    /\ wr' = [wr EXCEPT !.littleEndian = v]
    /\ wlast' = [op |-> "littleEndian"]
    /\ UNCHANGED <<src, rd, littleEndian, observe, last, delivered, rds, outs,
                   sink, wrote, got,
                   task, file, target>>

\* readFromBytes(writer.data): a new reader, big-endian
DoOpenReader ==
    /\ observe = "write"
    /\ TypedCount >= 1
    /\ src' = Data(wr)
    /\ rd' = NewArrayBufferReader
    /\ littleEndian' = FALSE
    /\ observe' = "read"
    /\ UNCHANGED <<last, delivered, rds, outs, wr, sink, wlast, wrote, got,
                   task, file, target>>

\* reader.littleEndian = v
DoSetReaderEndian(v) ==
    /\ observe = "read"
    /\ littleEndian' = v
    /\ last' = [NoCall EXCEPT !.op = "littleEndian"]
    /\ UNCHANGED <<src, rd, observe, delivered, rds, outs,
                   wr, sink, wlast, wrote, got,
                   task, file, target>>

\* the item the next read is for
Pending == wrote[Len(got) + 1]

\* what is recorded of a read: the result, the flag when it was issued, and
\* the position of the reader afterwards
CommitBack(x) ==
    /\ rd' = x.r
    /\ got' = Append(got, [value |-> x.value, le |-> littleEndian,
                           head |-> x.r.head, err |-> x.err])
    /\ UNCHANGED <<src, littleEndian, observe, last, delivered, rds, outs,
                   wr, sink, wlast, wrote,
                   task, file, target>>

DoReadBackBytes ==
    /\ observe = "read"
    /\ Len(got) < Len(wrote)
    /\ Pending.type = "Bytes"
    /\ CommitBack(BytesOf(ReadBytes(rd, Len(Pending.value))))

DoReadBackNumeric ==
    /\ observe = "read"
    /\ Len(got) < Len(wrote)
    /\ Pending.type \in IntTypes
    /\ CommitBack(ReadNumeric(rd, Pending.type, littleEndian))

\* readString in the mode the string was written in (in the other mode the
\* length prefix is read as some other number of up to 2^32 - 1 bytes)
DoReadBackString ==
    /\ observe = "read"
    /\ Len(got) < Len(wrote)
    /\ Pending.type = "String"
    /\ littleEndian = Pending.le
    /\ CommitBack(ReadString(rd, littleEndian))

NextCodec ==
    \/ DoWriteMagic
    \/ \E type \in IntTypes : \E v \in ValuesOf(type) : DoWriteNumeric(type, v)
    \/ \E s \in Strings : DoWriteString(s)
    \/ \E i \in Seconds : DoWriteSecond(i.type, i.value)
    \/ \E v \in BOOLEAN : DoSetWriterEndian(v)
    \/ DoOpenReader
    \/ \E v \in BOOLEAN : DoSetReaderEndian(v)
    \/ DoReadBackBytes
    \/ DoReadBackNumeric
    \/ DoReadBackString

SpecCodec == InitCodec /\ [][NextCodec]_vars

----------------------------------------------------------------------------
(* Properties of the typed writes and reads *)

\* the typed items, and those that were read back
Written == {k \in 1..Len(wrote) : wrote[k].type \in IntTypes}
ReadBack == {k \in Written : k <= Len(got)}

\* the bytes an item produced
ItemBytes(k) == SubSeq(wr.buf, wrote[k].at + 1, wrote[k].end)

\* the n bytes of v in two's complement, most significant first, for the
\* largest and smallest values of a width and for values of magnitude < 256
MostSignificantFirst(v, n) ==
    IF v = MaxUnsigned(n) THEN [i \in 1..n |-> 255]
    ELSE IF v = MaxSigned(n) THEN [i \in 1..n |-> IF i = 1 THEN 127 ELSE 255]
    ELSE IF v = MinSigned(n) THEN [i \in 1..n |-> IF i = 1 THEN 128 ELSE 0]
    ELSE [i \in 1..n |-> IF i = n
                         THEN (IF v.neg THEN 256 - NumberOf(v) ELSE NumberOf(v))
                         ELSE (IF v.neg THEN 255 ELSE 0)]

\* C17: a value written with a typed write and read back with the matching
\* typed read under the same endianness is returned unchanged, for every
\* width and signedness, and the read consumes exactly the bytes the write
\* produced
IntRoundTrip ==
    \A k \in ReadBack :
        got[k].le = wrote[k].le =>
            /\ got[k].err = NoErr
            /\ got[k].value = wrote[k].value
            /\ wrote[k].end - wrote[k].at = ByteWidth(wrote[k].type)
            /\ got[k].head = wrote[k].end

\* C17 witness: the smallest 64-bit integer, written and read back
\* little-endian
MinInt64ReadBack ==
    /\ Len(got) >= 1
    /\ wrote[1].type = "Int64"
    /\ wrote[1].value = MinSigned(8)
    /\ wrote[1].le
    /\ got[1].le
    /\ got[1].value = MinSigned(8)

\* C18: a typed write emits exactly width/8 bytes, the two's complement of
\* the value, most significant byte first when the flag was false and least
\* significant first when it was true; CA FE followed by writeUint16(42)
\* little-endian is CA FE 2A 00, and reads back as CA FE and 42
WireLayout ==
    /\ \A k \in Written :
          /\ Len(ItemBytes(k)) = ByteWidth(wrote[k].type)
          /\ ~wrote[k].le =>
                ItemBytes(k) = MostSignificantFirst(wrote[k].value, ByteWidth(wrote[k].type))
          /\ wrote[k].le =>
                Reverse(ItemBytes(k))
                  = MostSignificantFirst(wrote[k].value, ByteWidth(wrote[k].type))
    /\ (/\ Len(wrote) >= 2
        /\ wrote[1].type = "Bytes"
        /\ wrote[2].type = "Uint16"
        /\ wrote[2].value = IntValue(42)
        /\ wrote[2].le) =>
          /\ SubSeq(wr.buf, 1, 4) = <<202, 254, 42, 0>>
          /\ Len(got) >= 1 => got[1].value = <<202, 254>>
          /\ (Len(got) >= 2 /\ got[2].le) => got[2].value = IntValue(42)

\* C18 witness: CA FE and a little-endian 42 were written and read back
MagicAnd42 ==
    /\ Len(wrote) = 2
    /\ wrote[1].type = "Bytes"
    /\ wrote[2].type = "Uint16"
    /\ wrote[2].value = IntValue(42)
    /\ wrote[2].le
    /\ Len(got) = 2
    /\ got[2].le
    /\ Data(wr) = <<202, 254, 42, 0>>

\* the strings written, and those read back
WrittenStrings == {k \in 1..Len(wrote) : wrote[k].type = "String"}

\* no surrogate stands alone
WellFormed(s) ==
    \A i \in 1..Len(s) :
        /\ IsHighSurrogate(s[i]) => (i < Len(s) /\ IsLowSurrogate(s[i + 1]))
        /\ IsLowSurrogate(s[i]) => (i > 1 /\ IsHighSurrogate(s[i - 1]))

\* C19: writeString(s) emits a 4-byte unsigned length in the flag's byte
\* order, whose value is the number of UTF-8 bytes of s, followed by exactly
\* those bytes; readString consumes exactly 4 + length bytes and returns s,
\* for the empty string, ASCII strings and strings of multi-byte code points
StringRoundTrip ==
    \A k \in WrittenStrings :
        WellFormed(wrote[k].value) =>
            /\ wrote[k].end - wrote[k].at = 4 + Len(Utf8Encode(wrote[k].value))
            /\ SubSeq(ItemBytes(k), 1, 4)
                 = (IF wrote[k].le
                    THEN <<Len(Utf8Encode(wrote[k].value)), 0, 0, 0>>
                    ELSE <<0, 0, 0, Len(Utf8Encode(wrote[k].value))>>)
            /\ SubSeq(ItemBytes(k), 5, Len(ItemBytes(k))) = Utf8Encode(wrote[k].value)
            /\ k <= Len(got) =>
                  /\ got[k].err = NoErr
                  /\ got[k].head = wrote[k].end
                  /\ got[k].value = wrote[k].value

\* C20: a writer and a reader on which nothing was called are big-endian;
\* every multi-byte write emits its bytes in the order of the flag at the
\* time it was issued, and every multi-byte read decodes in the order of the
\* flag at the time it was issued, whatever the flag was before or is now;
\* the 8-bit writes and reads give the same byte and value under either flag
EndianFlag ==
    /\ (observe = "write" /\ wrote = <<>> /\ wlast = NoWrite) => ~wr.littleEndian
    /\ (observe = "read" /\ got = <<>> /\ last = NoCall) => ~littleEndian
    /\ \A k \in Written :
          ItemBytes(k)
            = (IF wrote[k].le /\ ByteWidth(wrote[k].type) > 1
               THEN Reverse(MostSignificantFirst(wrote[k].value, ByteWidth(wrote[k].type)))
               ELSE MostSignificantFirst(wrote[k].value, ByteWidth(wrote[k].type)))
    /\ \A k \in ReadBack :
          /\ got[k].err = NoErr
          /\ (got[k].le = wrote[k].le \/ ByteWidth(wrote[k].type) = 1) =>
                got[k].value = wrote[k].value
          /\ got[k].le # wrote[k].le =>
                NumericToRawBytes(got[k].value, ByteWidth(wrote[k].type), FALSE)
                  = Reverse(NumericToRawBytes(wrote[k].value, ByteWidth(wrote[k].type), FALSE))
    /\ \A k \in WrittenStrings :
          SubSeq(ItemBytes(k), 1, 4)
            = (IF wrote[k].le
               THEN <<Len(Utf8Encode(wrote[k].value)), 0, 0, 0>>
               ELSE <<0, 0, 0, Len(Utf8Encode(wrote[k].value))>>)

\* C20 witness: two multi-byte values written under different flags and read
\* back under the matching flags, the flag being changed between the two
\* writes and between the two reads
FlagChangedBetween ==
    /\ Len(wrote) = 2
    /\ Len(got) = 2
    /\ wrote[1].type = "Uint32"
    /\ wrote[1].value = IntValue(200)
    /\ wrote[2].type = "Int32"
    /\ wrote[1].le
    /\ ~wrote[2].le
    /\ got[1].le
    /\ ~got[2].le
    /\ got[2].value = IntValue(-2)

----------------------------------------------------------------------------
(* SpecCursor: either one reader (as in Spec) or one ArrayBufferDataWriter  *)
(* (as in SpecWriter), calls issued one after the other                     *)

InitCursor == Init \/ InitWriter

NextCursor ==
    \/ (observe = "calls" /\ Next)
    \/ (observe = "writer" /\ NextWriter)

SpecCursor == InitCursor /\ [][NextCursor]_vars

\* C21: no call makes the in-memory reader's read head or the growable
\* writer's length written smaller, and the read head never exceeds the
\* source length
CursorMonotone ==
    [][/\ (observe = "calls" /\ rd.kind = "ab") =>
             (rd'.head >= rd.head /\ rd'.head <= Len(src'))
       /\ observe = "writer" => wr'.len >= wr.len]_vars

\* C21 witness: a read that asked for more bytes than were left moved the
\* read head of the in-memory reader from the middle to the end of the source
HeadAtEnd ==
    /\ observe = "calls"
    /\ rd.kind = "ab"
    /\ last.op = "read"
    /\ last.pre.head > 0
    /\ last.byteLength > Len(src) - last.pre.head
    /\ rd.head = Len(src)
    /\ last.out.err = NoErr

\* C22: between calls a BlobDataReader buffers at most one chunk, whose read
\* head lies within it, and a buffered chunk always has unread bytes: a chunk
\* drained to its end is discarded (stated for the calls that completed
\* without raising)
PendingChunk ==
    (IsBlob(rd) /\ rd.chunk.present /\ last.out.err = NoErr) =>
        /\ 0 <= rd.chunk.head
        /\ rd.chunk.head <= Len(rd.chunk.data)
        /\ rd.chunk.head < Len(rd.chunk.data)

\* bytes buffered in the reader's chunk and not yet handed out
Buffered(r) == IF r.chunk.present THEN Len(r.chunk.data) - r.chunk.head ELSE 0

\* where the chunk pulled last by the last call starts in the source
LastPullStart == ((rd.pos - 1) \div ChunkSize(rd.cs)) * ChunkSize(rd.cs)

\* C23: a read of length > 0 pulls from the source only the chunks it needs:
\* when it pulled a chunk, the bytes buffered and pulled before that chunk
\* were fewer than requested
PullsOnlyWhenNeeded ==
    (/\ ReadRequest
     /\ IsBlob(last.pre)
     /\ OpenBefore
     /\ rd.pos > last.pre.pos) =>
        Buffered(last.pre) + (LastPullStart - last.pre.pos) < last.byteLength

\* the offset the last raw read asked for
ReadOffset == IF last.byteOffset = Undef THEN 0 ELSE last.byteOffset

\* C24: with byteLength omitted, the region transferred is the view from
\* byteOffset (0 when omitted) to its end: the writer appends exactly those
\* bytes and advances by their number, and a read never fails for storing
\* past the end of the destination and returns no more than the destination
\* holds from byteOffset on
DefaultBounds ==
    /\ (/\ observe = "writer"
        /\ wlast.op = "write"
        /\ wlast.byteLength = Undef
        /\ WriteOffset <= Len(wlast.u8)) =>
          /\ wlast.err = NoErr
          /\ wr.len - wlast.pre.len = Len(wlast.u8) - WriteOffset
          /\ Data(wr) = Data(wlast.pre) \o SubSeq(wlast.u8, WriteOffset + 1, Len(wlast.u8))
    /\ (/\ observe = "calls"
        /\ last.op = "read"
        /\ last.byteLength = Undef
        /\ ReadOffset <= last.destLen) =>
          /\ last.out.err # ErrRange
          /\ last.out.ret <= last.destLen - ReadOffset
          /\ Len(last.out.buf) = last.destLen

\* C28: a raw read of length > 0 into a destination that holds the requested
\* region leaves every byte of the destination outside
\* dest[offset, offset+length) as it was (zero), and does not fail for
\* storing beyond offset+length, on every backend and chunking
ReadFrame ==
    (ReadRequest /\ OpenBefore) =>
        /\ last.out.err # ErrRange
        /\ Len(last.out.buf) = last.destLen
        /\ \A i \in 1..last.destLen :
              (i <= ReadOffset \/ i > ReadOffset + last.byteLength) => last.out.buf[i] = 0

\* C30: after close() was called on a BlobDataReader, whether it returned or
\* raised, no operation pulls from the source or hands out bytes
NoPullAfterClose ==
    (/\ last.op \in ReadOps
     /\ IsBlob(last.pre)
     /\ last.pre.state = CLOSED) =>
        /\ ~Pulled
        /\ last.out.bytes = <<>>
        /\ last.out.ret <= 0


----------------------------------------------------------------------------
(* SpecConvert: convert, DataTarget.asBytes and DataSource.asBytes.  An   *)
(* object is a typed array or DataView ("view") over a buffer of the      *)
(* caller, a raw buffer, a Blob, a plain array, or not an object at all;   *)
(* size is the byte length of the buffer behind it, the Blob's size or the *)
(* array's length.  The result names the memory it views: the caller's or  *)
(* a copy.                                                                 *)

MaxMem == 5         \* largest buffer, Blob or array handed to asBytes

ErrNotObject == "Data source must be an object"
ErrConvert   == "Cannot convert"

Object(kind, size, byteOffset, byteLength) ==
    [kind |-> kind, size |-> size, byteOffset |-> byteOffset, byteLength |-> byteLength]

Objects ==
    {Object("view", m, o, l) : m \in 0..MaxMem, o \in 0..MaxMem, l \in 0..MaxMem}
    \cup {Object(k, m, 0, m) : k \in {"buffer", "blob", "array"}, m \in 0..MaxMem}
    \cup {Object("number", 0, 0, 0)}

\* the views that can exist: within their buffer
IsObject(x) == x.byteOffset + x.byteLength <= x.size

Resolve(mem, byteOffset, length) ==
    [mem |-> mem, byteOffset |-> byteOffset, length |-> length, err |-> NoErr]
Reject(e) == [mem |-> "none", byteOffset |-> 0, length |-> 0, err |-> e]

\* convert that copies whatever allowCopy says
ConvertAlwaysCopies(object, allowCopy) ==
    CASE object.kind = "number" -> Reject(ErrNotObject)
      [] object.kind = "blob" -> Resolve("copy", 0, object.size)
      [] object.kind = "view" ->
            Resolve("caller", OrDefault(object.byteOffset, 0), object.byteLength)
      [] object.kind = "buffer" -> Resolve("caller", 0, object.size)
      [] OTHER -> Resolve("copy", 0, object.size)

Convert(object, allowCopy) ==
    CASE object.kind = "number" -> Reject(ErrNotObject)
      [] object.kind = "blob" ->
            IF allowCopy THEN Resolve("copy", 0, object.size) ELSE Reject(ErrConvert)
      [] object.kind = "view" ->
            Resolve("caller", OrDefault(object.byteOffset, 0), object.byteLength)
      [] object.kind = "buffer" -> Resolve("caller", 0, object.size)
      [] OTHER ->
            IF allowCopy THEN Resolve("copy", 0, object.size) ELSE Reject(ErrConvert)

\* DataTarget.asBytes: synchronous, a rejection is thrown as an Error
DataTargetAsBytes(t) == Convert(t, FALSE)

\* DataSource.asBytes: a promise, a rejection rejects it
DataSourceAsBytes(s) == Convert(s, TRUE)

InitConvert ==
    /\ InitReader("convert")
    /\ src = <<>>
    /\ rd = NewArrayBufferReader

CommitConvert(op, object, out) ==
    /\ target' = [kind |-> object.kind, op |-> op, object |-> object, out |-> out]
    /\ UNCHANGED <<src, rd, littleEndian, observe, last, delivered, rds, outs,
                   wr, sink, wlast, wrote, got, task, file>>

DoAsBytesTarget(object) ==
    /\ IsObject(object)
    /\ CommitConvert("DataTarget.asBytes", object, DataTargetAsBytes(object))

DoAsBytesSource(object) ==
    /\ IsObject(object)
    /\ CommitConvert("DataSource.asBytes", object, DataSourceAsBytes(object))

NextConvert ==
    \/ \E object \in Objects : DoAsBytesTarget(object)
    \/ \E object \in Objects : DoAsBytesSource(object)

SpecConvert == InitConvert /\ [][NextConvert]_vars

\* C25: DataTarget.asBytes gives, for a view or a raw buffer, a byte view
\* over the caller's memory with the object's offset and length (for a raw
\* buffer: all of it), never a copy; for a Blob or a plain array it fails
AsBytesNeverCopies ==
    (target.kind # "none" /\ target.op = "DataTarget.asBytes") =>
        /\ target.out.mem # "copy"
        /\ target.kind = "view" =>
              /\ target.out.err = NoErr
              /\ target.out.mem = "caller"
              /\ target.out.byteOffset = target.object.byteOffset
              /\ target.out.length = target.object.byteLength
        /\ target.kind = "buffer" =>
              /\ target.out.err = NoErr
              /\ target.out.mem = "caller"
              /\ target.out.byteOffset = 0
              /\ target.out.length = target.object.size
        /\ target.kind \in {"blob", "array"} => target.out.err # NoErr

\* a view in the middle of its buffer was converted, and an array was refused
ViewInsideBuffer ==
    /\ target.kind = "view"
    /\ target.op = "DataTarget.asBytes"
    /\ target.object.byteOffset > 0
    /\ target.object.byteLength > 0
    /\ target.object.byteOffset + target.object.byteLength < target.object.size
    /\ target.out.mem = "caller"


----------------------------------------------------------------------------
(* SpecBackends: an ArrayBufferDataWriter and a FileStreamDataWriter given *)
(* the same raw writes; file holds what the file handle was passed         *)

MaxWrites == 3      \* most writes the file handle receives

\* FileStreamDataWriter.write: the file handle afterwards
FileStreamWrite(f, u8, byteOffset, byteLength) ==
    IF byteOffset # Undef \/ byteLength # Undef
    THEN IF byteLength = 0
         THEN f
         ELSE LET offset == OrDefault(byteOffset, 0)
              IN Append(f, Subarray(u8, offset,
                                    offset + OrDefault(byteLength, Len(u8))))
    ELSE Append(f, u8)

\* the content of the file: the writes the handle received, in order
RECURSIVE Concat(_)
Concat(f) == IF f = <<>> THEN <<>> ELSE Head(f) \o Concat(Tail(f))

InitBackends ==
    /\ wr \in {NewArrayBufferWriter(c, FALSE) : c \in InitialCapacities}
    /\ sink = <<>>
    /\ wlast = NoWrite
    /\ wrote = <<>>
    /\ got = <<>>
    /\ ReaderIdle("backends")

CommitWriteBoth(u8, byteOffset, byteLength, x) ==
    /\ wr' = x.w
    /\ wlast' = WCall("write", u8, byteOffset, byteLength, x.err)
    /\ file' = FileStreamWrite(file, u8, byteOffset, byteLength)
    /\ UNCHANGED <<src, rd, littleEndian, observe, last, delivered, rds, outs,
                   sink, wrote, got, task, target>>

DoWriteBoth(u8, byteOffset, byteLength) ==
    /\ wr.len <= MaxData - MaxBuf
    /\ Len(file) < MaxWrites
    /\ \E hasTransfer \in BOOLEAN :
          CommitWriteBoth(u8, byteOffset, byteLength,
                          ArrayBufferWrite(wr, u8, byteOffset, byteLength, hasTransfer))

NextBackends ==
    \E n \in {0, MaxBuf}, byteOffset \in {Undef, 0, 1},
       byteLength \in {Undef} \cup 0..MaxBuf :
          DoWriteBoth(SrcBytes(n), byteOffset, byteLength)

SpecBackends == InitBackends /\ [][NextBackends]_vars

\* C26: after any sequence of raw writes that all fit their buffer, the
\* bytes accumulated by the ArrayBufferDataWriter are the concatenation of
\* what the FileStreamDataWriter passed to its file handle
BackendsAgree ==
    (observe = "backends" /\ wlast.op = "write" /\ wlast.err = NoErr) =>
        Data(wr) = Concat(file)


----------------------------------------------------------------------------
(* SpecRace: a BlobDataReader whose first read is suspended in _getReader, *)
(* at the awaits that acquire the stream and its reader, while other calls *)
(* run.  task holds the suspended read and its arguments; delivered holds  *)
(* the bytes handed out.                                                   *)

\* read up to the first await of _getReader: the state was UNINITIALIZED
Suspended(destLen, byteOffset, byteLength) ==
    [pc |-> "acquiring", destLen |-> destLen,
     byteOffset |-> byteOffset, byteLength |-> byteLength]

\* _getReader after its awaits: the fields and the state are assigned
\* without looking at the state again
AcquireResumed(r) == [r EXCEPT !.state = INITIALIZED, !.acquired = @ + 1]

InitRace ==
    /\ InitReader("stream")
    /\ IsBlob(rd)

RaceBeginRead(destLen, byteOffset, byteLength) ==
    /\ task = NoTask
    /\ rd.state = UNINITIALIZED
    /\ byteLength # 0
    /\ task' = Suspended(destLen, byteOffset, byteLength)
    /\ UNCHANGED <<src, rd, littleEndian, observe, last, delivered, rds, outs,
                   wr, sink, wlast, wrote, got, file, target>>

CommitResumed(x) ==
    /\ rd' = x.r
    /\ last' = Record("read", 0, task.destLen, task.byteOffset, task.byteLength,
                      Outcome(x.ret, Placed(x, task.byteOffset), x.u8, x.err))
    /\ delivered' = Deliver(Placed(x, task.byteOffset))
    /\ task' = NoTask
    /\ UNCHANGED <<src, littleEndian, observe, rds, outs,
                   wr, sink, wlast, wrote, got, file, target>>

RaceResumeRead ==
    /\ task.pc = "acquiring"
    /\ CommitResumed(BlobRead(AcquireResumed(rd), Zeros(task.destLen),
                              task.byteOffset, task.byteLength))

RaceRead(destLen, byteOffset, byteLength) ==
    /\ task = NoTask
    /\ rd.state # UNINITIALIZED
    /\ DoRead(destLen, byteOffset, byteLength)

NextRace ==
    \/ \E byteLength \in {Undef} \cup 1..MaxReq :
            RaceBeginRead(MaxDest, Undef, byteLength)
    \/ RaceResumeRead
    \/ \E byteLength \in {Undef} \cup 0..MaxReq :
            RaceRead(MaxDest, Undef, byteLength)
    \/ \E rf \in BOOLEAN, sf \in BOOLEAN : DoClose(rf, sf)

SpecRace == InitRace /\ [][NextRace]_vars

\* C27: CLOSED is terminal also when close() runs while the first read is
\* suspended acquiring the stream: no step takes a CLOSED reader to another
\* state, and a CLOSED reader delivers no bytes
ClosedIsTerminal ==
    [][(IsBlob(rd) /\ rd.state = CLOSED) =>
          (rd'.state = CLOSED /\ delivered' = delivered)]_vars


----------------------------------------------------------------------------
(* SpecDrain: readBytes and readAll one raw read at a time.  task is the   *)
(* call in progress: its buffer, head (bytes placed so far), limit (the    *)
(* requested length, or readAll's capacity) and the raw reads it issued.   *)
(* SpecDrainFair adds that a call whose raw read has settled is resumed.   *)

\* source lengths: empty, one chunk, two chunks, many chunks
DrainLens == {0, 1, 2, MaxSrcLen}

Running(op, buf, limit) ==
    [pc |-> "running", op |-> op, buf |-> buf, head |-> 0, limit |-> limit,
     reads |-> 0, zeros |-> 0, err |-> NoErr]

\* the call returns, or raises e
Finish(t, e) == [t EXCEPT !.pc = "idle", !.err = e]

\* the call after this.read(...) settled with x
Counted(t, x) ==
    [t EXCEPT !.reads = @ + 1,
              !.zeros = @ + (IF x.err = NoErr /\ x.ret = 0 THEN 1 ELSE 0),
              !.buf = x.u8]

\* readBytes' loop body that takes end of file for a read of no bytes
ReadBytesIterationIgnoresEOF(t, x) ==
    IF x.err # NoErr THEN Finish(Counted(t, x), x.err)
    ELSE IF x.ret = EOF THEN Counted(t, x)
    ELSE [Counted(t, x) EXCEPT !.head = @ + x.ret]

\* one iteration of readBytes' loop
ReadBytesIteration(t, x) ==
    IF x.err # NoErr THEN Finish(Counted(t, x), x.err)
    ELSE IF x.ret = EOF THEN Finish(Counted(t, x), ErrEOD)
    ELSE [Counted(t, x) EXCEPT !.head = @ + x.ret]

\* one iteration of readAll's loop, and the final realloc(length) after it
ReadAllIteration(t, x, hasTransfer) ==
    IF x.err # NoErr THEN Finish(Counted(t, x), x.err)
    ELSE IF x.ret = EOF
    THEN Finish([Counted(t, x) EXCEPT
                    !.buf = Realloc(x.u8, t.head, t.head, hasTransfer)], NoErr)
    ELSE IF t.head + x.ret = t.limit
    THEN [Counted(t, x) EXCEPT
             !.head = @ + x.ret,
             !.buf = Realloc(x.u8, t.head + x.ret, NextCapacity(t.limit), hasTransfer),
             !.limit = NextCapacity(t.limit)]
    ELSE [Counted(t, x) EXCEPT !.head = @ + x.ret]

InitDrain ==
    /\ InitReader("calls")
    /\ Len(src) \in DrainLens

DrainCommit(r, t) ==
    /\ rd' = r
    /\ task' = t
    /\ UNCHANGED <<src, littleEndian, observe, last, delivered, rds, outs,
                   wr, sink, wlast, wrote, got, file, target>>

\* readBytes, while fewer than MaxReq bytes were taken from the source
BeginReadBytes(n) ==
    /\ task.pc = "idle"
    /\ Len(src) - Unread(rd) < MaxReq
    /\ DrainCommit(rd, Running("readBytes", Zeros(n), n))

BeginReadAll ==
    /\ task.pc = "idle"
    /\ DrainCommit(rd, Running("readAll", Zeros(ReadAllCapacity), ReadAllCapacity))

ResumeWith(x, hasTransfer) ==
    DrainCommit(x.r, IF task.op = "readBytes"
                     THEN ReadBytesIteration(task, x)
                     ELSE ReadAllIteration(task, x, hasTransfer))

\* the next step of the call in progress: the loop test, and one raw read
DrainStep ==
    /\ task.pc = "running"
    /\ IF task.op = "readBytes" /\ ~(task.head < task.limit)
       THEN DrainCommit(rd, Finish(task, NoErr))
       ELSE \E hasTransfer \in BOOLEAN,
               x \in {RawRead(rd, task.buf, task.head, task.limit - task.head)} :
               ResumeWith(x, hasTransfer)

NextDrain ==
    \/ \E n \in {0, 1, MaxReq} : BeginReadBytes(n)
    \/ BeginReadAll
    \/ DrainStep

SpecDrain == InitDrain /\ [][NextDrain]_vars

\* the event loop resumes a call once the raw read it awaits has settled,
\* and every raw read settles: the source ends after finitely many chunks
SpecDrainFair == SpecDrain /\ WF_vars(DrainStep)

\* C29: every readBytes and readAll call completes, having issued no more
\* raw reads than the source has bytes plus two (one read of no bytes and
\* the one that reports the end)
DrainTerminates ==
    /\ [](task.pc = "running" => task.reads <= Len(src) + 2)
    /\ (task.pc = "running") ~> (task.pc = "idle")

\* a readBytes call completed after one of its raw reads returned 0 bytes
ZeroReadThenDone ==
    /\ task.pc = "idle"
    /\ task # NoTask
    /\ task.op = "readBytes"
    /\ task.zeros > 0
    /\ task.reads > 1

====
